---------------------------- MODULE Spec2Model ----------------------------
(***************************************************************************)
(* Event-driven consistency subsystem of the product service: the review   *)
(* event handlers (review.created / review.updated / review.deleted), the  *)
(* processed-events ledger they consult, and the review aggregate they     *)
(* recompute on the owning product record.                                 *)
(*                                                                         *)
(* average_rating is a Python float that the handlers always store after   *)
(* round(x, 2); the model keeps it as an integer number of hundredths.     *)
(***************************************************************************)
EXTENDS Integers, Sequences, FiniteSets, TLC

(***************************************************************************)
(* Bounds of the model.                                                    *)
(***************************************************************************)
MaxDeliveries == 4   \* deliveries handled by the sequential worker
MaxFaults == 1       \* store / ledger calls that raise during a run

(***************************************************************************)
(* Program constants.                                                      *)
(***************************************************************************)
MaxRating == 5       \* rating_distribution has the buckets "1" .. "5"
RecentKept == 4      \* recent_reviews[:4] kept behind the new review id
NoneValue == -1      \* Python None for a numeric payload field

Ratings == 1..MaxRating

(***************************************************************************)
(* The review aggregate of a product, as ReviewAggregates() initialises it *)
(***************************************************************************)
ZeroAggregates ==
    [average_rating |-> 0,
     total_review_count |-> 0,
     verified_review_count |-> 0,
     rating_distribution |-> [k \in Ratings |-> 0],
     recent_reviews |-> <<>>,
     last_review_date |-> NoneValue]

Max(a, b) == IF a >= b THEN a ELSE b

RECURSIVE SumOver(_, _)
SumOver(f, S) ==
    IF S = {} THEN 0
    ELSE LET x == CHOOSE y \in S : TRUE IN f[x] + SumOver(f, S \ {x})

(***************************************************************************)
(* round(num/den, 2) on a quotient given in hundredths (den > 0).          *)
(* Away from a half-way point the double-precision quotient and the exact  *)
(* quotient round to the same hundredth.  At an exact half-way point the   *)
(* result is decided by the rounding error of the double computation: up   *)
(* lists the computations whose double lands above the half-way point,     *)
(* down those whose double lands below it; a computation in neither set    *)
(* may produce either neighbour.                                           *)
(***************************************************************************)
Round2(num, den, key, up, down) ==
    LET fl == num \div den
        rem == num % den
    IN  IF 2 * rem < den THEN {fl}
        ELSE IF 2 * rem > den THEN {fl + 1}
        ELSE IF key \in up THEN {fl + 1}
        ELSE IF key \in down THEN {fl}
        ELSE {fl, fl + 1}

(***************************************************************************)
(* The half-way cases of the three average computations, as IEEE-754       *)
(* double arithmetic decides them.  Keys: <<average in hundredths, count,  *)
(* rating>>, and <<average, count, previous rating, rating>> for updates.  *)
(***************************************************************************)
CreatedHalfwayUp ==
    { <<100, 7, 4>>, <<128, 7, 1>>, <<128, 7, 3>>, <<128, 7, 5>>,
      <<200, 7, 1>>, <<200, 7, 5>>, <<228, 7, 2>>, <<228, 7, 4>>,
      <<272, 7, 1>>, <<272, 7, 3>>, <<272, 7, 5>>, <<300, 7, 2>>,
      <<372, 7, 2>>, <<372, 7, 4>>, <<400, 7, 3>>, <<428, 7, 2>>,
      <<428, 7, 4>>, <<466, 3, 3>>, <<466, 3, 5>>, <<500, 7, 4>> }

CreatedHalfwayDown ==
    { <<100, 7, 2>>, <<172, 7, 2>>, <<172, 7, 4>>, <<200, 7, 3>>,
      <<300, 7, 4>>, <<328, 7, 1>>, <<328, 7, 3>>, <<328, 7, 5>>,
      <<400, 7, 1>>, <<400, 7, 5>>, <<472, 7, 1>>, <<472, 7, 3>>,
      <<472, 7, 5>>, <<500, 7, 2>> }

UpdatedHalfwayUp ==
    {}

UpdatedHalfwayDown ==
    {}

DeletedHalfwayUp ==
    { <<129, 7, 3>>, <<133, 3, 1>>, <<133, 3, 2>>, <<157, 7, 1>>,
      <<157, 7, 4>>, <<185, 7, 2>>, <<185, 7, 5>>, <<229, 7, 1>>,
      <<229, 7, 4>>, <<233, 3, 1>>, <<233, 3, 2>>, <<233, 3, 3>>,
      <<233, 3, 4>>, <<233, 3, 5>>, <<243, 7, 3>>, <<315, 7, 3>>,
      <<329, 7, 2>>, <<329, 7, 5>>, <<333, 3, 1>>, <<333, 3, 2>>,
      <<333, 3, 3>>, <<333, 3, 4>>, <<333, 3, 5>>, <<343, 7, 1>>,
      <<343, 7, 4>>, <<385, 7, 1>>, <<415, 7, 1>>, <<415, 7, 4>>,
      <<433, 3, 3>>, <<433, 3, 4>>, <<433, 3, 5>>, <<457, 7, 4>>,
      <<471, 7, 3>>, <<533, 3, 4>>, <<533, 3, 5>> }

DeletedHalfwayDown ==
    { <<115, 7, 1>>, <<143, 7, 2>>, <<167, 3, 1>>, <<167, 3, 2>>,
      <<167, 3, 3>>, <<171, 7, 3>>, <<215, 7, 2>>, <<215, 7, 5>>,
      <<257, 7, 2>>, <<257, 7, 5>>, <<267, 3, 1>>, <<267, 3, 2>>,
      <<267, 3, 3>>, <<267, 3, 4>>, <<267, 3, 5>>, <<271, 7, 1>>,
      <<271, 7, 4>>, <<285, 7, 3>>, <<357, 7, 3>>, <<367, 3, 1>>,
      <<367, 3, 2>>, <<367, 3, 3>>, <<367, 3, 4>>, <<367, 3, 5>>,
      <<371, 7, 2>>, <<371, 7, 5>>, <<385, 7, 4>>, <<429, 7, 3>>,
      <<443, 7, 2>>, <<443, 7, 5>>, <<467, 3, 4>>, <<467, 3, 5>>,
      <<485, 7, 5>> }

(***************************************************************************)
(* Aggregate recomputation, one operator per handler.  avg is the rounded  *)
(* average the float computation produced (a member of the ...Averages set)*)
(***************************************************************************)
\* mutant: the quotient is truncated instead of rounded
CreatedAveragesTruncated(agg, data) ==
    {(agg.average_rating * agg.total_review_count + 100 * data.rating)
        \div (agg.total_review_count + 1)}

CreatedAverages(agg, data) ==
    Round2(agg.average_rating * agg.total_review_count + 100 * data.rating,
           agg.total_review_count + 1,
           <<agg.average_rating, agg.total_review_count, data.rating>>,
           CreatedHalfwayUp, CreatedHalfwayDown)

PrependRecent(review_id, recent_reviews) ==
    <<review_id>> \o SubSeq(recent_reviews, 1,
                            IF Len(recent_reviews) < RecentKept
                            THEN Len(recent_reviews) ELSE RecentKept)

IncrementBucket(dist, rating) ==
    IF rating \in DOMAIN dist
    THEN [dist EXCEPT ![rating] = @ + 1]
    ELSE dist

DecrementBucket(dist, rating) ==
    IF rating \in DOMAIN dist
    THEN [dist EXCEPT ![rating] = Max(0, @ - 1)]
    ELSE dist

CreatedAggregates(agg, data, avg) ==
    [average_rating |-> avg,
     total_review_count |-> agg.total_review_count + 1,
     verified_review_count |->
        IF data.isVerifiedPurchase
        THEN agg.verified_review_count + 1
        ELSE agg.verified_review_count,
     rating_distribution |-> IncrementBucket(agg.rating_distribution, data.rating),
     recent_reviews |-> PrependRecent(data.reviewId, agg.recent_reviews),
     last_review_date |-> data.createdAt]

\* Division by total_count: ZeroDivisionError when the count is 0.
UpdatedRaises(agg) == agg.total_review_count = 0

\* mutant: the previous rating is not taken out of the sum
UpdatedAveragesKeepPrevious(agg, data) ==
    Round2(agg.average_rating * agg.total_review_count + 100 * data.rating,
           agg.total_review_count,
           <<agg.average_rating, agg.total_review_count,
             data.previousRating, data.rating>>,
           UpdatedHalfwayUp, UpdatedHalfwayDown)

UpdatedAverages(agg, data) ==
    Round2(agg.average_rating * agg.total_review_count
              - 100 * data.previousRating + 100 * data.rating,
           agg.total_review_count,
           <<agg.average_rating, agg.total_review_count,
             data.previousRating, data.rating>>,
           UpdatedHalfwayUp, UpdatedHalfwayDown)

\* mutant: the aggregate is rebuilt from the recomputed fields instead of
\* copied and updated
UpdatedAggregatesRebuilt(agg, data, avg) ==
    [ZeroAggregates EXCEPT
       !.average_rating = avg,
       !.total_review_count = agg.total_review_count,
       !.verified_review_count = agg.verified_review_count,
       !.rating_distribution =
           IncrementBucket(DecrementBucket(agg.rating_distribution,
                                           data.previousRating),
                           data.rating)]

\* current_aggregates.copy() updated with the new average and distribution
UpdatedAggregates(agg, data, avg) ==
    [agg EXCEPT
       !.average_rating = avg,
       !.rating_distribution =
           IncrementBucket(DecrementBucket(agg.rating_distribution,
                                           data.previousRating),
                           data.rating)]

\* mutant: the decrement is not floored
DeletedCountUnfloored(agg) == agg.total_review_count - 1

DeletedCount(agg) == Max(0, agg.total_review_count - 1)

DeletedAverages(agg, data) ==
    IF DeletedCount(agg) > 0
    THEN Round2(agg.average_rating * agg.total_review_count - 100 * data.rating,
                DeletedCount(agg),
                <<agg.average_rating, agg.total_review_count, data.rating>>,
                DeletedHalfwayUp, DeletedHalfwayDown)
    ELSE {0}

\* mutant: the deleted review stays in the list
RemoveNothing(s, x) == s

\* list.remove(x): drops the first occurrence
RECURSIVE RemoveFirst(_, _)
RemoveFirst(s, x) ==
    IF s = <<>> THEN <<>>
    ELSE IF Head(s) = x THEN Tail(s)
    ELSE <<Head(s)>> \o RemoveFirst(Tail(s), x)

DeletedAggregates(agg, data, avg) ==
    [average_rating |-> avg,
     total_review_count |-> DeletedCount(agg),
     verified_review_count |->
        IF data.isVerifiedPurchase
        THEN Max(0, agg.verified_review_count - 1)
        ELSE agg.verified_review_count,
     rating_distribution |-> DecrementBucket(agg.rating_distribution, data.rating),
     recent_reviews |-> RemoveFirst(agg.recent_reviews, data.reviewId),
     last_review_date |-> agg.last_review_date]

(***************************************************************************)
(* Inbound events.  An event is the decoded envelope: id is the            *)
(* idempotency key, the other fields are those the handlers read from      *)
(* data.  Event ids and review ids are numbered; NoneValue stands for an    *)
(* absent id or number, "" for an absent product id.                       *)
(***************************************************************************)
Products == {"P1"}

Event(id, type, productId, reviewId, rating, previousRating, verified, createdAt) ==
    [id |-> id, type |-> type, productId |-> productId, reviewId |-> reviewId,
     rating |-> rating, previousRating |-> previousRating,
     isVerifiedPurchase |-> verified, createdAt |-> createdAt]

\* The events the broker of the sequential model delivers, any number of
\* times and in any order.
Catalog ==
    { Event(1, "review.created", "P1", 1, 5, NoneValue, TRUE, 1),
      Event(2, "review.created", "P1", 2, 3, NoneValue, FALSE, 2),
      Event(3, "review.updated", "P1", 2, 4, 3, FALSE, NoneValue),
      Event(4, "review.deleted", "P1", 1, 5, NoneValue, TRUE, NoneValue),
      Event(5, "review.deleted", "P1", 2, 4, NoneValue, FALSE, NoneValue),
      Event(6, "review.created", "P0", 3, 4, NoneValue, FALSE, 3) }

\* The store or ledger call that raises during one handler invocation.
Faults == {"none", "is_processed", "get_by_id", "update", "mark_processed"}

VARIABLES
    products,          \* product id -> review_aggregates of the stored product
    processed_events,  \* the ledger: event ids marked processed
    log,               \* handler invocations that returned, oldest first
    faults,            \* calls that raised so far
    tasks,             \* push path: the handler invocations in progress
    provider_type,     \* the value of MESSAGING_PROVIDER
    available,         \* whether the client of a transport could be set up
    sent,              \* the envelopes the transports accepted, oldest first
    operations,        \* the business operations that returned, oldest first
    clock,             \* the time datetime.utcnow() reads
    worker,            \* the pull worker: its flag, its thread, its connection
    broker,            \* the queue of the pull worker at the broker
    environ,           \* the environment variables the process start reads
    startup            \* what the factory and the worker start returned

\* the state of the outward path and of the pull worker
publish_vars == <<provider_type, available, sent, operations, clock>>

\* the state of the process start
config_vars == <<environ, startup>>

worker_vars == <<worker, broker, config_vars>>

vars == <<products, processed_events, log, faults, tasks, publish_vars,
          worker_vars>>

\* nothing was published and no pull worker was started
Quiet ==
    /\ provider_type = "dapr"
    /\ available = TRUE
    /\ sent = <<>>
    /\ operations = <<>>
    /\ clock = 0
    /\ worker = <<>>
    /\ broker = <<>>
    /\ environ = <<>>
    /\ startup = <<>>

(***************************************************************************)
(* Processed-events ledger (ProcessedEventRepository).                     *)
(***************************************************************************)
is_processed(ledger, event_id) == event_id \in ledger

\* insert under the unique index on event_id; a duplicate insert is
\* "already processed", not an error
mark_processed(ledger, event_id) == ledger \cup {event_id}

\* mutant: the ledger is never consulted
AlreadyProcessedNever(ledger, e) == FALSE

\* if await self.processed_events_repo.is_processed(event_id): return ...
AlreadyProcessed(ledger, e) == is_processed(ledger, e.id)

(***************************************************************************)
(* Product store, as the handlers use it.                                  *)
(***************************************************************************)
\* get_by_id returns None for a product id that is not stored
NotFound(prods, product_id) == product_id \notin DOMAIN prods

get_by_id(prods, product_id) == prods[product_id]

\* $set of review_aggregates on the product document
update(prods, product_id, aggregates) ==
    IF product_id \in DOMAIN prods
    THEN [prods EXCEPT ![product_id] = aggregates]
    ELSE prods

(***************************************************************************)
(* What one handler invocation returns and leaves behind.                  *)
(***************************************************************************)
Outcome(status, message, prods, ledger, read, wrote) ==
    [status |-> status, message |-> message, products |-> prods,
     ledger |-> ledger, read |-> read, wrote |-> wrote]

\* mutant: the exception leaves the handler
RaisedPropagates(call, prods, ledger, read, wrote) ==
    Outcome("raised", call, prods, ledger, read, wrote)

\* mutant: the except branch reports a success
RaisedReturnsSuccess(call, prods, ledger, read, wrote) ==
    Outcome("success", call, prods, ledger, read, wrote)

\* except Exception as e: return {"status": "error", "message": str(e)}
Raised(call, prods, ledger, read, wrote) ==
    Outcome("error", call, prods, ledger, read, wrote)

\* mutant: the event is never marked processed
UpdateNeverMark(e, fault, prods, ledger, new_aggregates) ==
    IF fault = "update"
    THEN Raised("update", prods, ledger, TRUE, FALSE)
    ELSE Outcome("success", "", update(prods, e.productId, new_aggregates),
                 ledger, TRUE, TRUE)

\* mutant: the event is marked before the product is updated
MarkThenUpdate(e, fault, prods, ledger, new_aggregates) ==
    IF fault = "mark_processed"
    THEN Raised("mark_processed", prods, ledger, TRUE, FALSE)
    ELSE IF fault = "update"
    THEN Raised("update", prods, mark_processed(ledger, e.id), TRUE, FALSE)
    ELSE Outcome("success", "", update(prods, e.productId, new_aggregates),
                 mark_processed(ledger, e.id), TRUE, TRUE)

\* The tail shared by the three handlers: update the product, then mark the
\* event processed.
UpdateThenMark(e, fault, prods, ledger, new_aggregates) ==
    IF fault = "update"
    THEN Raised("update", prods, ledger, TRUE, FALSE)
    ELSE LET written == update(prods, e.productId, new_aggregates) IN
         IF fault = "mark_processed"
         THEN Raised("mark_processed", written, ledger, TRUE, TRUE)
         ELSE Outcome("success", "", written,
                      mark_processed(ledger, e.id), TRUE, TRUE)

handle_review_created(e, fault, prods, ledger) ==
    IF e.id = NoneValue
    THEN {Outcome("error", "Missing event ID", prods, ledger, FALSE, FALSE)}
    ELSE IF fault = "is_processed"
    THEN {Raised("is_processed", prods, ledger, FALSE, FALSE)}
    ELSE IF AlreadyProcessed(ledger, e)
    THEN {Outcome("success", "Already processed", prods, ledger, FALSE, FALSE)}
    ELSE IF e.productId = "" \/ e.reviewId = NoneValue \/ e.rating = NoneValue
    THEN {Outcome("error", "Missing required fields", prods, ledger, FALSE, FALSE)}
    ELSE IF fault = "get_by_id"
    THEN {Raised("get_by_id", prods, ledger, FALSE, FALSE)}
    ELSE IF NotFound(prods, e.productId)
    THEN {Outcome("error", "Product not found", prods, ledger, TRUE, FALSE)}
    ELSE LET product == get_by_id(prods, e.productId) IN
         { UpdateThenMark(e, fault, prods, ledger,
                               CreatedAggregates(product, e, avg)) :
                   avg \in CreatedAverages(product, e) }

handle_review_updated(e, fault, prods, ledger) ==
    IF e.id = NoneValue
    THEN {Outcome("error", "Missing event ID", prods, ledger, FALSE, FALSE)}
    ELSE IF fault = "is_processed"
    THEN {Raised("is_processed", prods, ledger, FALSE, FALSE)}
    ELSE IF AlreadyProcessed(ledger, e)
    THEN {Outcome("success", "Already processed", prods, ledger, FALSE, FALSE)}
    ELSE IF e.productId = "" \/ e.rating = NoneValue \/ e.previousRating = NoneValue
    THEN {Outcome("error", "Missing required fields", prods, ledger, FALSE, FALSE)}
    ELSE IF e.rating = e.previousRating
    THEN {Outcome("success", "Rating unchanged", prods, ledger, FALSE, FALSE)}
    ELSE IF fault = "get_by_id"
    THEN {Raised("get_by_id", prods, ledger, FALSE, FALSE)}
    ELSE IF NotFound(prods, e.productId)
    THEN {Outcome("error", "Product not found", prods, ledger, TRUE, FALSE)}
    ELSE LET product == get_by_id(prods, e.productId) IN
         IF UpdatedRaises(product)
         THEN {Raised("division by zero", prods, ledger, TRUE, FALSE)}
         ELSE { UpdateThenMark(e, fault, prods, ledger,
                               UpdatedAggregates(product, e, avg)) :
                   avg \in UpdatedAverages(product, e) }

handle_review_deleted(e, fault, prods, ledger) ==
    IF e.id = NoneValue
    THEN {Outcome("error", "Missing event ID", prods, ledger, FALSE, FALSE)}
    ELSE IF fault = "is_processed"
    THEN {Raised("is_processed", prods, ledger, FALSE, FALSE)}
    ELSE IF AlreadyProcessed(ledger, e)
    THEN {Outcome("success", "Already processed", prods, ledger, FALSE, FALSE)}
    ELSE IF e.productId = "" \/ e.rating = NoneValue
    THEN {Outcome("error", "Missing required fields", prods, ledger, FALSE, FALSE)}
    ELSE IF fault = "get_by_id"
    THEN {Raised("get_by_id", prods, ledger, FALSE, FALSE)}
    ELSE IF NotFound(prods, e.productId)
    THEN {Outcome("error", "Product not found", prods, ledger, TRUE, FALSE)}
    ELSE LET product == get_by_id(prods, e.productId) IN
         { UpdateThenMark(e, fault, prods, ledger,
                               DeletedAggregates(product, e, avg)) :
                   avg \in DeletedAverages(product, e) }

(***************************************************************************)
(* Sequential deliveries (one worker, one message in flight): each action  *)
(* is one whole handler invocation.                                        *)
(***************************************************************************)
\* the handler of a topic
Handle(e, fault, prods, ledger) ==
    CASE e.type = "review.created" -> handle_review_created(e, fault, prods, ledger)
      [] e.type = "review.updated" -> handle_review_updated(e, fault, prods, ledger)
      [] e.type = "review.deleted" -> handle_review_deleted(e, fault, prods, ledger)

Invocation(e, fault, o) ==
    [event |-> e, fault |-> fault,
     status |-> o.status, message |-> o.message,
     read |-> o.read, wrote |-> o.wrote,
     before |-> products, after |-> o.products,
     marked |-> (o.ledger # processed_events)]

Deliver(e, fault, outcomes) ==
    /\ Len(log) < MaxDeliveries
    /\ fault # "none" => faults < MaxFaults
    /\ \E o \in outcomes :
         /\ products' = o.products
         /\ processed_events' = o.ledger
         /\ log' = Append(log, Invocation(e, fault, o))
         \* a call raises only if the handler reaches it
         /\ fault # "none" => o.message = fault
         /\ faults' = IF fault # "none" THEN faults + 1 ELSE faults
    /\ UNCHANGED <<tasks, publish_vars, worker_vars>>

ReviewCreated ==
    \E e \in Catalog, fault \in Faults :
        /\ e.type = "review.created"
        /\ Deliver(e, fault, handle_review_created(e, fault, products, processed_events))

ReviewUpdated ==
    \E e \in Catalog, fault \in Faults :
        /\ e.type = "review.updated"
        /\ Deliver(e, fault, handle_review_updated(e, fault, products, processed_events))

ReviewDeleted ==
    \E e \in Catalog, fault \in Faults :
        /\ e.type = "review.deleted"
        /\ Deliver(e, fault, handle_review_deleted(e, fault, products, processed_events))

Init ==
    /\ products = [p \in Products |-> ZeroAggregates]
    /\ processed_events = {}
    /\ log = <<>>
    /\ faults = 0
    /\ tasks = <<>>
    /\ Quiet

Next == ReviewCreated \/ ReviewUpdated \/ ReviewDeleted

Spec == Init /\ [][Next]_vars

(***************************************************************************)
(* A stream of new events: every delivery carries a fresh event id, and    *)
(* the events are handled one at a time.  log keeps the last invocation,   *)
(* and for a review.deleted also the review.created before it.             *)
(***************************************************************************)
MaxStream == 8       \* events of the stream

Handled == Cardinality(processed_events)

StreamDeliver(e, outcomes, kept) ==
    /\ \E o \in outcomes :
         /\ products' = o.products
         /\ processed_events' = o.ledger
         /\ log' = Append(kept, Invocation(e, "none", o))
    /\ UNCHANGED <<faults, tasks, publish_vars, worker_vars>>

\* a new review: its id is new, rating and verified flag are arbitrary
StreamCreated ==
    /\ Handled < MaxStream
    /\ \E rating \in Ratings, verified \in BOOLEAN :
         LET e == Event(Handled + 1, "review.created", "P1", Handled + 1,
                        rating, NoneValue, verified, Handled + 1)
         IN  StreamDeliver(e, handle_review_created(e, "none", products,
                                                    processed_events), <<>>)

\* the review created last is deleted at once: the event carries the rating
\* and the verified flag the review was created with
StreamDeleted ==
    /\ Handled < MaxStream
    /\ Len(log) = 1
    /\ LET c == log[1].event
           e == Event(Handled + 1, "review.deleted", "P1", c.reviewId,
                      c.rating, NoneValue, c.isVerifiedPurchase, NoneValue)
       IN  /\ c.type = "review.created"
           /\ StreamDeliver(e, handle_review_deleted(e, "none", products,
                                                      processed_events), log)

StreamInit ==
    /\ products = [p \in Products |-> ZeroAggregates]
    /\ processed_events = {}
    /\ log = <<>>
    /\ faults = 0
    /\ tasks = <<>>
    /\ Quiet

StreamNext == StreamCreated \/ StreamDeleted

SpecStream == StreamInit /\ [][StreamNext]_vars

(***************************************************************************)
(* Push path: every inbound call runs its handler as a task of the event   *)
(* loop.  A task runs without interruption between two awaits; the awaits  *)
(* of a handler are is_processed, get_by_id, update and mark_processed.    *)
(***************************************************************************)
MaxTasks == 2        \* handler tasks that may be in progress together
MaxCalls == 3        \* inbound calls of a run

TaskIds == 1..MaxTasks

NoEvent == Event(NoneValue, "", "", NoneValue, NoneValue, NoneValue, FALSE, NoneValue)

IdleTask ==
    [pc |-> "idle", event |-> NoEvent, before |-> [p \in Products |-> ZeroAggregates],
     aggregates |-> ZeroAggregates, wrote |-> FALSE]

InProgress == {t \in TaskIds : tasks[t].pc # "idle"}

\* the handler returns: the endpoint answers and the task ends
Return(t, status, message, read, marked) ==
    /\ log' = Append(log,
                     [event |-> tasks[t].event, fault |-> "none",
                      status |-> status, message |-> message,
                      read |-> read, wrote |-> tasks[t].wrote,
                      before |-> tasks[t].before, after |-> products,
                      marked |-> marked])
    /\ tasks' = [tasks EXCEPT ![t] = IdleTask]

\* the required payload fields of the three handlers
MissingFields(e) ==
    CASE e.type = "review.created" ->
            e.productId = "" \/ e.reviewId = NoneValue \/ e.rating = NoneValue
      [] e.type = "review.updated" ->
            e.productId = "" \/ e.rating = NoneValue \/ e.previousRating = NoneValue
      [] e.type = "review.deleted" ->
            e.productId = "" \/ e.rating = NoneValue

\* the aggregates a handler computes from the product it read
NewAggregates(e, product) ==
    CASE e.type = "review.created" ->
            {CreatedAggregates(product, e, avg) : avg \in CreatedAverages(product, e)}
      [] e.type = "review.updated" ->
            {UpdatedAggregates(product, e, avg) : avg \in UpdatedAverages(product, e)}
      [] e.type = "review.deleted" ->
            {DeletedAggregates(product, e, avg) : avg \in DeletedAverages(product, e)}

\* POST /events/review.*: the handler starts and reaches its first await
PushReceive(t) ==
    /\ tasks[t].pc = "idle"
    /\ Len(log) + Cardinality(InProgress) < MaxCalls
    /\ \E e \in Catalog :
         tasks' = [tasks EXCEPT ![t] =
                      [IdleTask EXCEPT !.pc = "is_processed", !.event = e,
                                       !.before = products]]
    /\ UNCHANGED <<products, processed_events, log, faults, publish_vars,
                   worker_vars>>

PushIsProcessed(t) ==
    /\ tasks[t].pc = "is_processed"
    /\ LET e == tasks[t].event IN
         IF AlreadyProcessed(processed_events, e)
         THEN Return(t, "success", "Already processed", FALSE, FALSE)
         ELSE IF MissingFields(e)
         THEN Return(t, "error", "Missing required fields", FALSE, FALSE)
         ELSE IF e.type = "review.updated" /\ e.rating = e.previousRating
         THEN Return(t, "success", "Rating unchanged", FALSE, FALSE)
         ELSE /\ tasks' = [tasks EXCEPT ![t].pc = "get_by_id"]
              /\ UNCHANGED log
    /\ UNCHANGED <<products, processed_events, faults, publish_vars,
                   worker_vars>>

PushGetById(t) ==
    /\ tasks[t].pc = "get_by_id"
    /\ LET e == tasks[t].event IN
         IF NotFound(products, e.productId)
         THEN Return(t, "error", "Product not found", TRUE, FALSE)
         ELSE IF e.type = "review.updated"
                 /\ UpdatedRaises(get_by_id(products, e.productId))
         THEN Return(t, "error", "division by zero", TRUE, FALSE)
         ELSE /\ \E new \in NewAggregates(e, get_by_id(products, e.productId)) :
                   tasks' = [tasks EXCEPT ![t].pc = "update",
                                          ![t].before = products,
                                          ![t].aggregates = new]
              /\ UNCHANGED log
    /\ UNCHANGED <<products, processed_events, faults, publish_vars,
                   worker_vars>>

PushUpdate(t) ==
    /\ tasks[t].pc = "update"
    /\ products' = update(products, tasks[t].event.productId, tasks[t].aggregates)
    /\ tasks' = [tasks EXCEPT ![t].pc = "mark_processed", ![t].wrote = TRUE]
    /\ UNCHANGED <<processed_events, log, faults, publish_vars, worker_vars>>

PushMarkProcessed(t) ==
    /\ tasks[t].pc = "mark_processed"
    /\ processed_events' = mark_processed(processed_events, tasks[t].event.id)
    /\ UNCHANGED <<products, faults, publish_vars, worker_vars>>
    /\ Return(t, "success", "", TRUE, tasks[t].event.id \notin processed_events)

PushInit ==
    /\ products = [p \in Products |-> ZeroAggregates]
    /\ processed_events = {}
    /\ log = <<>>
    /\ faults = 0
    /\ tasks = [t \in TaskIds |-> IdleTask]
    /\ Quiet

PushNext ==
    \E t \in TaskIds :
        \/ PushReceive(t)
        \/ PushIsProcessed(t)
        \/ PushGetById(t)
        \/ PushUpdate(t)
        \/ PushMarkProcessed(t)

SpecPush == PushInit /\ [][PushNext]_vars

(***************************************************************************)
(* Properties of the sequential deliveries (Spec).                         *)
(***************************************************************************)
ValidCreated(e) ==
    /\ e.type = "review.created"
    /\ e.id # NoneValue /\ e.reviewId # NoneValue /\ e.rating # NoneValue
    /\ e.productId \in Products

CountChanged(inv) ==
    \E p \in Products :
        inv.before[p].total_review_count # inv.after[p].total_review_count

\* C1: a valid review.created event delivered twice in a row: the second
\* delivery is answered "Already processed" from the ledger, neither reads
\* nor writes the product, and leaves the aggregate as the first left it.
IdempotentRedelivery ==
    \A i \in 1..(Len(log) - 1) :
        ( /\ ValidCreated(log[i].event)
          /\ log[i + 1].event = log[i].event
          /\ log[i].fault = "none" /\ log[i + 1].fault = "none" )
        => /\ log[i].status = "success"
           /\ log[i + 1].status = "success"
           /\ log[i + 1].message = "Already processed"
           /\ ~log[i + 1].read /\ ~log[i + 1].wrote /\ ~log[i + 1].marked
           /\ log[i + 1].after = log[i].after

RedeliveredAfterApply ==
    \E i \in 1..(Len(log) - 1) :
        /\ ValidCreated(log[i].event)
        /\ log[i + 1].event = log[i].event
        /\ log[i].fault = "none" /\ log[i + 1].fault = "none"
        /\ log[i].wrote /\ log[i].marked

\* C2: over any sequence of deliveries, failing calls included, an event id
\* changes total_review_count at most once.
NoDoubleCounting ==
    \A i, j \in 1..Len(log) :
        (i < j /\ log[i].event.id = log[j].event.id)
        => ~(CountChanged(log[i]) /\ CountChanged(log[j]))

\* C5: the counts never go negative, and a review.deleted that finds a count
\* at 0 leaves it at 0.
NoNegativeCounts ==
    /\ \A p \in Products :
         /\ products[p].total_review_count >= 0
         /\ products[p].verified_review_count >= 0
         /\ \A k \in Ratings : products[p].rating_distribution[k] >= 0
    /\ \A i \in 1..Len(log) :
         LET d == log[i].event
             b == log[i].before["P1"]
             a == log[i].after["P1"]
         IN  (d.type = "review.deleted" /\ log[i].wrote)
             => /\ b.total_review_count = 0 => a.total_review_count = 0
                /\ b.verified_review_count = 0 => a.verified_review_count = 0
                /\ b.rating_distribution[d.rating] = 0
                      => a.rating_distribution[d.rating] = 0

DeletedBeyondCount ==
    \E i \in 1..Len(log) :
        /\ log[i].event.type = "review.deleted"
        /\ log[i].wrote
        /\ log[i].before["P1"].total_review_count = 0
        /\ log[i].before["P1"].rating_distribution[log[i].event.rating] = 0
        /\ log[i].event.isVerifiedPurchase

\* The scenario: Created(5, verified), Created(3, unverified),
\* Updated(3 -> 4), Deleted(5, verified), on the zero aggregate.
Scenario == <<1, 2, 3, 4>>

Distribution(one, two, three, four, five) ==
    [k \in Ratings |-> <<one, two, three, four, five>>[k]]

ScenarioExpected ==
    << [count |-> 1, average |-> 500, verified |-> 1,
        dist |-> Distribution(0, 0, 0, 0, 1)],
       [count |-> 2, average |-> 400, verified |-> 1,
        dist |-> Distribution(0, 0, 1, 0, 1)],
       [count |-> 2, average |-> 450, verified |-> 1,
        dist |-> Distribution(0, 0, 0, 1, 1)],
       [count |-> 1, average |-> 400, verified |-> 0,
        dist |-> Distribution(0, 0, 0, 1, 0)] >>

FollowsScenario ==
    /\ Len(log) <= Len(Scenario)
    /\ \A i \in 1..Len(log) :
         log[i].event.id = Scenario[i] /\ log[i].fault = "none"

\* C6: the scenario of the specification gives, step by step,
\* {1, 5.0, verified 1, {5:1}}, {2, 4.0, {5:1, 3:1}}, {2, 4.5, {5:1, 4:1}},
\* {1, 4.0, verified 0, {4:1}}.
ScenarioHolds ==
    FollowsScenario =>
        \A i \in 1..Len(log) :
            LET a == log[i].after["P1"] x == ScenarioExpected[i] IN
            /\ log[i].status = "success"
            /\ a.total_review_count = x.count
            /\ a.average_rating = x.average
            /\ a.verified_review_count = x.verified
            /\ a.rating_distribution = x.dist

ScenarioCompleted == FollowsScenario /\ Len(log) = Len(Scenario)

(***************************************************************************)
(* Properties of the concurrent deliveries (SpecPush).                     *)
(***************************************************************************)
\* C3: of the deliveries that carry one event id, at most one applies the
\* aggregate mutation, however the handlers interleave.
AtMostOneWinner ==
    \A i, j \in 1..Len(log) :
        (i < j /\ log[i].event.id = log[j].event.id)
        => ~(log[i].wrote /\ log[j].wrote)

\* C4: two review.created events of different ids for one product, handled
\* concurrently from the zero aggregate, are both counted.
BothCounted ==
    ( /\ InProgress = {}
      /\ Len(log) = 2
      /\ log[1].event.id # log[2].event.id
      /\ \A i \in 1..2 :
           /\ ValidCreated(log[i].event)
           /\ log[i].status = "success" /\ log[i].wrote /\ log[i].marked )
    => /\ products["P1"].total_review_count = 2
       /\ SumOver(products["P1"].rating_distribution, Ratings) = 2

(***************************************************************************)
(* Properties of the stream of new reviews (SpecStream).                   *)
(***************************************************************************)
Abs(x) == IF x < 0 THEN -x ELSE x

\* C7: one review.created with rating r applied to an aggregate of count n:
\* the count becomes n + 1, the average becomes (average * n + r) / (n + 1)
\* rounded to the nearest hundredth, the verified count grows exactly when
\* the purchase is verified, the bucket of r grows by one and the others
\* stay, and last_review_date is the createdAt of the event.
CreatedStep ==
    \A i \in 1..Len(log) :
        LET e == log[i].event
            b == log[i].before["P1"]
            a == log[i].after["P1"]
            n == b.total_review_count
        IN  (e.type = "review.created" /\ log[i].wrote)
            => /\ log[i].status = "success" /\ log[i].marked
               /\ a.total_review_count = n + 1
               /\ 2 * Abs(a.average_rating * (n + 1)
                          - (b.average_rating * n + 100 * e.rating)) <= n + 1
               /\ a.verified_review_count =
                     b.verified_review_count
                        + (IF e.isVerifiedPurchase THEN 1 ELSE 0)
               /\ \A k \in Ratings :
                     a.rating_distribution[k] =
                        b.rating_distribution[k] + (IF k = e.rating THEN 1 ELSE 0)
               /\ a.last_review_date = e.createdAt

CreatedOnInexactQuotient ==
    \E i \in 1..Len(log) :
        LET e == log[i].event
            b == log[i].before["P1"]
            n == b.total_review_count
        IN  /\ e.type = "review.created" /\ log[i].wrote
            /\ e.isVerifiedPurchase
            /\ n >= 2
            /\ (b.average_rating * n + 100 * e.rating) % (n + 1) # 0

\* the sum of the ratings counted in a distribution
RatingSum(dist) == SumOver([k \in Ratings |-> k * dist[k]], Ratings)

OnlyCreated ==
    /\ products["P1"].total_review_count = Handled
    /\ Handled > 0

\* C8: after N review.created events and nothing else, average_rating is
\* the mean of the N ratings rounded to the nearest hundredth.
AverageIsRoundedMean ==
    OnlyCreated =>
        LET a == products["P1"] IN
        2 * Abs(a.average_rating * a.total_review_count
                - 100 * RatingSum(a.rating_distribution))
            <= a.total_review_count

DeletedAfterCreated ==
    /\ Len(log) = 2
    /\ log[1].event.type = "review.created" /\ log[1].wrote
    /\ log[2].event.type = "review.deleted" /\ log[2].wrote

\* C9: a review.created followed by the review.deleted of the same review
\* (same rating, same verified flag) restores the total count, the verified
\* count, the average, the distribution and the recent_reviews list.
DeletionRestoresAll ==
    DeletedAfterCreated =>
        LET b == log[1].before["P1"]
            a == log[2].after["P1"]
        IN  /\ a.total_review_count = b.total_review_count
            /\ a.verified_review_count = b.verified_review_count
            /\ a.average_rating = b.average_rating
            /\ a.rating_distribution = b.rating_distribution
            /\ a.recent_reviews = b.recent_reviews

\* C9, amended: the counts and the distribution are restored; the average
\* comes back within one hundredth; recent_reviews is restored when it held
\* fewer than five entries, and otherwise has lost its oldest entry.
DeletionRestoresCounts ==
    DeletedAfterCreated =>
        LET b == log[1].before["P1"]
            a == log[2].after["P1"]
        IN  /\ a.total_review_count = b.total_review_count
            /\ a.verified_review_count = b.verified_review_count
            /\ Abs(a.average_rating - b.average_rating) <= 1
            /\ a.rating_distribution = b.rating_distribution
            /\ a.recent_reviews =
                  IF Len(b.recent_reviews) <= RecentKept
                  THEN b.recent_reviews
                  ELSE SubSeq(b.recent_reviews, 1, RecentKept)

DeletedFromFullRecent ==
    /\ DeletedAfterCreated
    /\ Len(log[1].before["P1"].recent_reviews) = RecentKept + 1
    /\ log[2].after["P1"].average_rating # log[1].before["P1"].average_rating

(***************************************************************************)
(* Redelivery of a Created event around the Updated event of its review    *)
(* (Spec).                                                                 *)
(***************************************************************************)
\* the states that delivering the events once, in order and without a
\* failing call, can end in
RECURSIVE InOrder(_, _, _)
InOrder(prods, ledger, events) ==
    IF events = <<>>
    THEN {<<prods, ledger>>}
    ELSE UNION {InOrder(o.products, o.ledger, Tail(events)) :
                    o \in Handle(Head(events), "none", prods, ledger)}

\* the last three deliveries are those of c and u in one of the orders, no
\* call of theirs fails, and neither event was delivered before
LastThree(c, u, orders) ==
    /\ Len(log) >= 3
    /\ LET i == Len(log) - 2 IN
         /\ \E order \in orders :
              \A k \in 1..3 : log[i + k - 1].event = <<c, u>>[order[k]]
         /\ \A k \in 0..2 : log[i + k].fault = "none"
         /\ \A j \in 1..(i - 1) : log[j].event.id \notin {c.id, u.id}

UpdateOf(c, u) ==
    /\ ValidCreated(c)
    /\ u.type = "review.updated"
    /\ u.productId = c.productId /\ u.reviewId = c.reviewId
    /\ u.previousRating = c.rating

SameAsInOrder(orders) ==
    \A c, u \in Catalog :
        (UpdateOf(c, u) /\ LastThree(c, u, orders))
        => <<products, processed_events>>
              \in InOrder(log[Len(log) - 2].before,
                          processed_events \ {c.id, u.id}, <<c, u>>)

ReviewTopics == {"review.created", "review.updated", "review.deleted"}

InventoryTopics ==
    {"inventory.stock.updated", "inventory.low.stock", "inventory.out.of.stock"}

\* the keys of the dispatch table, and a routing key that is not one
TOPIC_HANDLERS == ReviewTopics \cup InventoryTopics

UnknownTopic == "order.created"

\* the body of a message: a JSON object, JSON that is not an object, or
\* bytes that are not JSON
Bodies == {"object", "array", "garbage"}

\* the payload of an inventory event; "" and NoneValue stand for absent
Payload(sku, quantity) == [sku |-> sku, quantity |-> quantity]

NoPayload == Payload("", NoneValue)

InventoryPayloads ==
    {Payload(sku, quantity) : sku \in {"", "SKU1"}, quantity \in {NoneValue, 0}}

\* review events that a handler rejects: no event id, a required field
\* absent, or a product that is not stored
Rejected(e) ==
    { [e EXCEPT !.id = NoneValue],
      [e EXCEPT !.id = e.id + 10, !.productId = ""],
      [e EXCEPT !.id = e.id + 20, !.rating = NoneValue],
      [e EXCEPT !.id = e.id + 30, !.productId = "P0"] }
    \cup (IF e.type = "review.created"
          THEN {[e EXCEPT !.id = e.id + 40, !.reviewId = NoneValue]}
          ELSE {})
    \cup (IF e.type = "review.updated"
          THEN {[e EXCEPT !.id = e.id + 40, !.previousRating = NoneValue]}
          ELSE {})

\* a review.updated event whose rating equals its previousRating
UnchangedUpdate == Event(7, "review.updated", "P1", 2, 4, 4, FALSE, NoneValue)

\* the events of the routed messages: a Created, an Updated and a Deleted
\* event of the catalog, the rejected variants of each, and an Updated event
\* that changes no rating
RouterEvents ==
    UNION {{e} \cup Rejected(e) : e \in {c \in Catalog : c.id \in {1, 3, 4}}}
    \cup {UnchangedUpdate}

\* wrapped: data is itself an envelope (it has a specversion field) whose
\* data is the payload
Message(topic, body, wrapped, event, payload) ==
    [topic |-> topic, body |-> body, wrapped |-> wrapped,
     event |-> event, payload |-> payload]

Messages ==
    {Message(e.type, "object", w, e, NoPayload) :
        e \in RouterEvents, w \in BOOLEAN}
    \cup {Message(t, "object", w, NoEvent, pl) :
            t \in InventoryTopics, w \in BOOLEAN, pl \in InventoryPayloads}
    \cup {Message(e.type, b, FALSE, e, NoPayload) :
            e \in {c \in Catalog : c.id = 1}, b \in {"array", "garbage"}}
    \cup {Message(UnknownTopic, b, FALSE, e, NoPayload) :
            e \in {c \in Catalog : c.id = 1}, b \in Bodies}

\* data = event_data.get("data", {}) and the fields a review handler reads
\* from it: the fields of a nested envelope are not those of the payload
ReviewData(msg) ==
    IF msg.wrapped
    THEN [msg.event EXCEPT !.productId = "", !.reviewId = NoneValue,
                           !.rating = NoneValue, !.previousRating = NoneValue,
                           !.isVerifiedPurchase = FALSE, !.createdAt = NoneValue]
    ELSE msg.event

\* mutant: a valid stock update resets the review aggregates and enters a
\* ledger record
InventoryUpdatedWrites(msg, prods, ledger) ==
    LET payload == msg.payload IN
    IF payload.sku = "" \/ payload.quantity = NoneValue
    THEN {Outcome("error", "Missing required fields", prods, ledger, FALSE, FALSE)}
    ELSE {Outcome("success", "", [p \in DOMAIN prods |-> ZeroAggregates],
                  ledger \cup {0}, FALSE, TRUE)}

\* handle_inventory_updated: the payload is taken from the nested envelope
\* when data has a specversion field
handle_inventory_updated(msg, prods, ledger) ==
    LET payload == msg.payload IN
    IF payload.sku = "" \/ payload.quantity = NoneValue
    THEN {Outcome("error", "Missing required fields", prods, ledger, FALSE, FALSE)}
    ELSE {Outcome("success", "", prods, ledger, FALSE, FALSE)}

\* handle_inventory_low_stock, handle_inventory_out_of_stock: sku is read
\* from data and logged
handle_inventory_low_stock(msg, prods, ledger) ==
    {Outcome("success", "", prods, ledger, FALSE, FALSE)}

handle_inventory_out_of_stock(msg, prods, ledger) ==
    {Outcome("success", "", prods, ledger, FALSE, FALSE)}

\* the topics of the subscription list of the push path
SUBSCRIPTIONS ==
    {"inventory.stock.updated", "inventory.low.stock", "inventory.out.of.stock",
     "review.created", "review.updated", "review.deleted"}

\* the consumer and its method that the dispatch table of the pull worker
\* names for a topic
PullHandler(topic) ==
    CASE topic = "review.created" -> <<"review", "handle_review_created">>
      [] topic = "review.updated" -> <<"review", "handle_review_updated">>
      [] topic = "review.deleted" -> <<"review", "handle_review_deleted">>
      [] topic = "inventory.stock.updated" ->
            <<"inventory", "handle_inventory_updated">>
      [] topic = "inventory.low.stock" ->
            <<"inventory", "handle_inventory_low_stock">>
      [] topic = "inventory.out.of.stock" ->
            <<"inventory", "handle_inventory_out_of_stock">>

\* mutant: the endpoint of review.deleted awaits the handler of
\* review.created
PushHandlerSwapped(topic) ==
    IF topic = "review.deleted"
    THEN <<"review", "handle_review_created">>
    ELSE PullHandler(topic)

\* the consumer and its method that the endpoint of a topic awaits
PushHandler(topic) ==
    CASE topic = "review.created" -> <<"review", "handle_review_created">>
      [] topic = "review.updated" -> <<"review", "handle_review_updated">>
      [] topic = "review.deleted" -> <<"review", "handle_review_deleted">>
      [] topic = "inventory.stock.updated" ->
            <<"inventory", "handle_inventory_updated">>
      [] topic = "inventory.low.stock" ->
            <<"inventory", "handle_inventory_low_stock">>
      [] topic = "inventory.out.of.stock" ->
            <<"inventory", "handle_inventory_out_of_stock">>

\* a method of one of the two consumer instances, applied to the decoded
\* envelope
Invoke(handler, msg, fault, prods, ledger) ==
    CASE handler = <<"review", "handle_review_created">> ->
            handle_review_created(ReviewData(msg), fault, prods, ledger)
      [] handler = <<"review", "handle_review_updated">> ->
            handle_review_updated(ReviewData(msg), fault, prods, ledger)
      [] handler = <<"review", "handle_review_deleted">> ->
            handle_review_deleted(ReviewData(msg), fault, prods, ledger)
      [] handler = <<"inventory", "handle_inventory_updated">> ->
            handle_inventory_updated(msg, prods, ledger)
      [] handler = <<"inventory", "handle_inventory_low_stock">> ->
            handle_inventory_low_stock(msg, prods, ledger)
      [] handler = <<"inventory", "handle_inventory_out_of_stock">> ->
            handle_inventory_out_of_stock(msg, prods, ledger)

\* the handler the dispatch table names for the topic, applied to the
\* decoded envelope
Dispatch(msg, fault, prods, ledger) ==
    Invoke(PullHandler(msg.topic), msg, fault, prods, ledger)

\* the handler the endpoint of the topic awaits, applied to the decoded
\* envelope
Endpoint(msg, fault, prods, ledger) ==
    Invoke(PushHandler(msg.topic), msg, fault, prods, ledger)

\* the record of one delivery: whether a handler ran and what it returned,
\* how the message was settled, and the state around it
Delivery(path, msg, fault, handled, status, message, settled, after, ledger) ==
    [path |-> path, msg |-> msg, fault |-> fault, handled |-> handled,
     status |-> status, message |-> message, settled |-> settled,
     before |-> products, after |-> after,
     ledger_before |-> processed_events, ledger_after |-> ledger]

Settle(record, fault) ==
    /\ products' = record.after
    /\ processed_events' = record.ledger_after
    /\ log' = <<record>>
    /\ faults' = IF fault # "none" THEN faults + 1 ELSE faults
    /\ UNCHANGED <<tasks, publish_vars, worker_vars>>

\* mutant: a message that cannot be routed is requeued
SettlementRequeueDiscards(outcome) ==
    IF outcome \in {"parse_error", "unknown_topic", "raised"}
    THEN "nack_requeue" ELSE "ack"

\* mutant: a handler result of status error is requeued
SettlementRequeueErrors(outcome) ==
    IF outcome \in {"error", "raised"} THEN "nack_requeue" ELSE "ack"

\* how _process_message settles a message: basic_nack(requeue=True) when an
\* exception other than a JSON decode error reaches it, basic_ack otherwise
Settlement(outcome) ==
    IF outcome = "raised" THEN "nack_requeue" ELSE "ack"

\* mutant: the answer follows the handler result
ResponseOfResult(outcome) ==
    IF outcome = "success" THEN "SUCCESS" ELSE "RETRY"

\* the body a push endpoint answers with, from its try and its except branch
Response(outcome) == "SUCCESS"

\* _process_message
PullMessage ==
    \E msg \in Messages, fault \in Faults :
        /\ fault # "none" => faults < MaxFaults
        /\ IF msg.body = "garbage"
           THEN \* json.JSONDecodeError
                /\ fault = "none"
                /\ Settle(Delivery("pull", msg, fault, FALSE, "parse_error", "",
                                   Settlement("parse_error"),
                                   products, processed_events), fault)
           ELSE IF msg.topic \notin TOPIC_HANDLERS
           THEN /\ fault = "none"
                /\ Settle(Delivery("pull", msg, fault, FALSE, "unknown_topic", "",
                                   Settlement("unknown_topic"),
                                   products, processed_events), fault)
           ELSE IF msg.body = "array"
           THEN \* the handler raises on event_data.get, and again in its
                \* except branch: the exception reaches the worker
                /\ fault = "none"
                /\ Settle(Delivery("pull", msg, fault, TRUE, "raised",
                                   "AttributeError", Settlement("raised"),
                                   products, processed_events), fault)
           ELSE \E o \in Dispatch(msg, fault, products, processed_events) :
                /\ fault # "none" => o.message = fault
                /\ Settle(Delivery("pull", msg, fault, TRUE, o.status,
                                   o.message, Settlement(o.status),
                                   o.products, o.ledger), fault)

\* POST /events/<topic>
PushCall ==
    \E msg \in Messages, fault \in Faults :
        /\ msg.topic \in TOPIC_HANDLERS
        /\ fault # "none" => faults < MaxFaults
        /\ IF msg.body # "object"
           THEN \* request.json() or event_data.get raises in the endpoint
                /\ fault = "none"
                /\ Settle(Delivery("push", msg, fault, FALSE, "raised", "",
                                   Response("raised"),
                                   products, processed_events), fault)
           ELSE \E o \in Endpoint(msg, fault, products, processed_events) :
                /\ fault # "none" => o.message = fault
                /\ Settle(Delivery("push", msg, fault, TRUE, o.status,
                                   o.message, Response(o.status),
                                   o.products, o.ledger), fault)

RouterInit ==
    /\ products = [p \in Products |-> ZeroAggregates]
    /\ processed_events = {}
    /\ log = <<>>
    /\ faults = 0
    /\ tasks = <<>>
    /\ Quiet

RouterNext == PullMessage \/ PushCall

SpecRouter == RouterInit /\ [][RouterNext]_vars

(***************************************************************************)
(* Properties of the routing (SpecRouter).                                 *)
(***************************************************************************)
Delivered == Len(log) = 1

\* C11: a delivery whose data is a nested envelope has the outcome and the
\* state effect of the delivery of the same payload in a single envelope,
\* on each of the six topics.
UnwrappedBeforeExtraction ==
    Delivered =>
        LET d == log[1] IN
        (d.handled /\ d.msg.body = "object" /\ d.msg.wrapped /\ d.fault = "none")
        => \E o \in Dispatch([d.msg EXCEPT !.wrapped = FALSE], "none",
                             d.before, d.ledger_before) :
              /\ d.status = o.status
              /\ d.after = o.products
              /\ d.ledger_after = o.ledger

\* C12: a push endpoint answers {"status": "SUCCESS"} to every call,
\* whatever the handler returned and whether or not the body was decoded.
PushAlwaysAcknowledged ==
    Delivered => (log[1].path = "push" => log[1].settled = "SUCCESS")

PushAnsweredAfterFailure ==
    /\ Delivered
    /\ log[1].path = "push"
    /\ log[1].handled /\ log[1].status = "error" /\ log[1].fault = "update"

TransientFailureRequeued ==
    Delivered =>
        LET d == log[1] IN
        (d.path = "pull" /\ d.fault # "none") => d.settled = "nack_requeue"

\* a review event without an event id, without a required field, or of a
\* product that is not stored
Unacceptable(e) ==
    \/ e.id = NoneValue
    \/ MissingFields(e)
    \/ e.productId \notin Products

DistributionSumsToTotal ==
    \A p \in Products :
        SumOver(products[p].rating_distribution, Ratings)
            = products[p].total_review_count

\* C17: 0 <= verified_review_count <= total_review_count, whatever review
\* events were delivered.
VerifiedWithinTotal ==
    \A p \in Products :
        /\ 0 <= products[p].verified_review_count
        /\ products[p].verified_review_count <= products[p].total_review_count

\* C18: average_rating stays between 0.0 and 5.0, whatever review events
\* with ratings in 1..5 were delivered.
AverageInRange ==
    \A p \in Products :
        /\ 0 <= products[p].average_rating
        /\ products[p].average_rating <= 100 * MaxRating

\* s without its k-th entry
Without(s, k) == SubSeq(s, 1, k - 1) \o SubSeq(s, k + 1, Len(s))

InSeq(x, s) == \E k \in 1..Len(s) : s[k] = x

\* C19: recent_reviews holds at most 5 ids; a Created event puts its review
\* id at the head, keeps the others in order and drops the oldest beyond 5;
\* a Deleted event removes its review id and adds nothing; an Updated event
\* leaves the list as it was.
RecentReviewsMaintained ==
    /\ \A p \in Products : Len(products[p].recent_reviews) <= RecentKept + 1
    /\ \A i \in 1..Len(log) :
         LET e == log[i].event
             b == log[i].before["P1"].recent_reviews
             a == log[i].after["P1"].recent_reviews
         IN  log[i].wrote =>
             CASE e.type = "review.created" ->
                    /\ Len(a) = (IF Len(b) > RecentKept THEN RecentKept + 1
                                 ELSE Len(b) + 1)
                    /\ a[1] = e.reviewId
                    /\ \A k \in 2..Len(a) : a[k] = b[k - 1]
               [] e.type = "review.deleted" ->
                    /\ ~InSeq(e.reviewId, a)
                    /\ IF InSeq(e.reviewId, b)
                       THEN \E k \in 1..Len(b) :
                               b[k] = e.reviewId /\ a = Without(b, k)
                       ELSE a = b
               [] e.type = "review.updated" -> a = b

\* the event ids marked by the invocations before the i-th
MarkedBefore(i) == {log[j].event.id : j \in {k \in 1..(i - 1) : log[k].marked}}

\* C20: a handler checks the ledger, reads the product, updates it and marks
\* the event, in that order: an event is marked only after its update, the
\* product is updated only after it was read and after the ledger check
\* found the event unmarked, a success that is no skip has done all four,
\* and the ledger holds exactly the events marked after their update.
CheckMutateMark ==
    /\ \A i \in 1..Len(log) :
         LET r == log[i] IN
         /\ r.marked => (r.wrote /\ r.status = "success")
         /\ r.wrote => (r.read /\ r.event.id \notin MarkedBefore(i))
         /\ r.wrote => r.after[r.event.productId]
                          \in NewAggregates(r.event, r.before[r.event.productId])
         /\ (r.status = "success" /\ r.message = "")
               => (r.read /\ r.wrote /\ r.marked)
         /\ r.fault = "update" => (r.read /\ ~r.wrote /\ ~r.marked)
         /\ r.fault = "mark_processed" => (r.wrote /\ ~r.marked)
    /\ processed_events = MarkedBefore(Len(log) + 1)

UpdateFailedThenApplied ==
    \E i \in 1..(Len(log) - 1) :
        /\ log[i].fault = "update"
        /\ log[i + 1].event = log[i].event
        /\ log[i + 1].status = "success" /\ log[i + 1].marked

(***************************************************************************)
(* The handled events, case by case (SpecRouter).                          *)
(***************************************************************************)
\* the last delivery ran the handler on the plain envelope of an event that
\* the ledger did not hold, and no call raised
FirstHandling ==
    /\ Delivered
    /\ log[1].handled
    /\ log[1].msg.body = "object"
    /\ ~log[1].msg.wrapped
    /\ log[1].fault = "none"
    /\ log[1].msg.event.id \notin log[1].ledger_before

\* C21: a review.updated event whose rating equals previousRating leaves the
\* aggregate as it was and is marked processed in the ledger, so that a
\* redelivery of it is answered from the ledger
UnchangedUpdateMarked ==
    (FirstHandling /\ log[1].msg.event = UnchangedUpdate)
        => /\ log[1].status = "success"
           /\ log[1].after = log[1].before
           /\ UnchangedUpdate.id \in log[1].ledger_after

\* C22: a review.deleted event that meets a total_review_count of 0 or 1 is
\* applied without a division by zero; the written aggregate has
\* average_rating 0.0 and total_review_count 0, and its recent_reviews no
\* longer hold the deleted review id
LastReviewDeleted ==
    \A i \in 1..Len(log) :
        LET e == log[i].event IN
        (/\ e.type = "review.deleted"
         /\ log[i].fault = "none"
         /\ log[i].read
         /\ log[i].before[e.productId].total_review_count <= 1)
            => /\ log[i].status = "success"
               /\ log[i].wrote
               /\ log[i].after[e.productId].average_rating = 0
               /\ log[i].after[e.productId].total_review_count = 0
               /\ ~InSeq(e.reviewId, log[i].after[e.productId].recent_reviews)

MaxOperations == 2   \* business operations and direct publish calls of a run

ProviderTypes == {"dapr", "servicebus", "rabbitmq"}

\* os.getenv of a variable that is not set
Unset == "<unset>"

\* the values an environment variable is given: not set, empty, or a text
ProviderValues ==
    {Unset, "", "dapr", "DAPR", "servicebus", "ServiceBus", "rabbitmq",
     "RabbitMQ", "kafka"}

SettingValues == {Unset, "", "configured"}

PortValues == {Unset, "", "3500", "abc"}

Environments ==
    [MESSAGING_PROVIDER : ProviderValues,
     DAPR_HTTP_PORT : PortValues,
     SERVICEBUS_CONNECTION_STRING : SettingValues,
     SERVICEBUS_TOPIC_NAME : SettingValues,
     RABBITMQ_URL : SettingValues]

\* an environment that selects a provider and has its settings
Configured(value) ==
    [MESSAGING_PROVIDER |-> value,
     DAPR_HTTP_PORT |-> Unset,
     SERVICEBUS_CONNECTION_STRING |-> "configured",
     SERVICEBUS_TOPIC_NAME |-> "configured",
     RABBITMQ_URL |-> "configured"]

\* os.getenv(name, default)
getenv(value, default) == IF value = Unset THEN default ELSE value

\* mutant: the value is compared as it is spelled
LowerUnfolded(value) == value

\* str.lower()
lower(value) ==
    CASE value = "DAPR" -> "dapr"
      [] value = "ServiceBus" -> "servicebus"
      [] value = "RabbitMQ" -> "rabbitmq"
      [] OTHER -> value

\* int(text): the texts that are not a number raise ValueError
IntRaises(text) == text = "abc"

\* _create_dapr_provider: the port, when set and not empty, goes through
\* int()
create_dapr_provider(env) ==
    LET dapr_http_port == getenv(env.DAPR_HTTP_PORT, "") IN
    IF dapr_http_port # "" /\ IntRaises(dapr_http_port)
    THEN "ValueError"
    ELSE "DaprProvider"

\* _create_servicebus_provider
create_servicebus_provider(env) ==
    IF getenv(env.SERVICEBUS_CONNECTION_STRING, "") = "" THEN "ValueError"
    ELSE IF getenv(env.SERVICEBUS_TOPIC_NAME, "") = "" THEN "ValueError"
    ELSE "ServiceBusProvider"

\* _create_rabbitmq_provider
create_rabbitmq_provider(env) ==
    IF getenv(env.RABBITMQ_URL, "") = "" THEN "ValueError"
    ELSE "RabbitMQProvider"

\* the provider class the factory returns for an environment, or the
\* exception it raises
create_messaging_provider(env) ==
    LET value == lower(getenv(env.MESSAGING_PROVIDER, "dapr")) IN
    CASE value = "dapr" -> create_dapr_provider(env)
      [] value = "servicebus" -> create_servicebus_provider(env)
      [] value = "rabbitmq" -> create_rabbitmq_provider(env)
      [] OTHER -> "ValueError"

\* start_rabbitmq_consumer: a worker only for rabbitmq, and None when its
\* start() raises
start_rabbitmq_consumer(env) ==
    IF lower(getenv(env.MESSAGING_PROVIDER, "dapr")) # "rabbitmq"
    THEN {"None"}
    ELSE {"RabbitMQConsumer", "None"}

\* the transport a provider class sends on
TransportOf(provider) ==
    CASE provider = "DaprProvider" -> "dapr"
      [] provider = "ServiceBusProvider" -> "servicebus"
      [] provider = "RabbitMQProvider" -> "rabbitmq"

service_name == "product-service"

\* the trace id of the request in progress, None outside a request
TraceIds == {"", "trace-1"}

\* what the client of a transport does with one message
ClientOutcomes == {"accepted", "exception"}

\* the payload of an outward event
Data(about) == [productId |-> "P1", about |-> about]

\* mutant: an exception of the client leaves publish_event
SendUncaught(ready, outcome) ==
    IF ~ready
    THEN [result |-> FALSE, attempts |-> 0, raised |-> FALSE]
    ELSE [result |-> outcome = "accepted", attempts |-> 1,
          raised |-> outcome = "exception"]

\* publish_event of the publisher and of the three providers: False when the
\* client is not there; otherwise one call of the client inside try, True
\* after it, False from except Exception
Send(ready, outcome) ==
    IF ~ready
    THEN [result |-> FALSE, attempts |-> 0, raised |-> FALSE]
    ELSE [result |-> outcome = "accepted", attempts |-> 1, raised |-> FALSE]

\* mutant: the ambient trace id is preferred to the correlation id passed in
CorrelationOfTrace(correlation_id, trace_id) ==
    IF trace_id = "" THEN correlation_id ELSE trace_id

\* if not correlation_id: correlation_id = get_trace_id()
Correlation(correlation_id, trace_id) ==
    IF correlation_id = "" THEN trace_id ELSE correlation_id

\* "id": correlation_id or f"{event_type}-{datetime.utcnow().timestamp()}"
EnvelopeId(event_type, correlation_id, now) ==
    IF correlation_id = "" THEN <<event_type, now>> ELSE <<correlation_id>>

\* the timestamp is read only when there is no correlation id
TimesRead(correlation_id, trace_id) ==
    IF Correlation(correlation_id, trace_id) = ""
    THEN {clock, clock + 1} ELSE {clock}

\* event_payload, without its time field
Envelope(event_type, data, correlation_id, now) ==
    [specversion |-> "1.0", type |-> event_type, source |-> service_name,
     id |-> EnvelopeId(event_type, correlation_id, now),
     datacontenttype |-> "application/json", data |-> data,
     correlationId |-> correlation_id]

\* one call of a publish_event: what it was given, what the client of the
\* transport did and what it returned
Call(via, transport, topic, envelope, passed, trace_id, outcome, attempt) ==
    [via |-> via, transport |-> transport, topic |-> topic,
     envelope |-> envelope, passed |-> passed, trace_id |-> trace_id,
     client |-> IF available THEN outcome ELSE "absent",
     result |-> attempt.result, attempts |-> attempt.attempts,
     raised |-> attempt.raised]

\* DaprEventPublisher.publish_event: the envelope goes to the sidecar client
publish_event(event_type, data, correlation_id, trace_id, now, outcome) ==
    Call("DaprEventPublisher", "dapr", event_type,
         Envelope(event_type, data, Correlation(correlation_id, trace_id), now),
         [data |-> data, correlation_id |-> correlation_id],
         trace_id, outcome, Send(available, outcome))

\* publish_event of the provider the factory built
provider_publish_event(provider, topic, event_data, correlation_id, outcome) ==
    Call(provider, TransportOf(provider), topic, event_data,
         [data |-> event_data.data, correlation_id |-> correlation_id],
         "", outcome, Send(available, outcome))

\* the envelopes of an operation that reached a transport
Accepted(calls, op) ==
    LET ok == SelectSeq(calls, LAMBDA c : c.result) IN
    [i \in 1..Len(ok) |->
        [transport |-> ok[i].transport, topic |-> ok[i].topic,
         envelope |-> ok[i].envelope, op |-> op]]

\* an operation is over: it returned, or an exception left it
Complete(name, calls, returned, now) ==
    /\ Len(operations) < MaxOperations
    /\ operations' = Append(operations, [name |-> name, calls |-> calls,
                                         returned |-> returned])
    /\ sent' = sent \o Accepted(calls, Len(operations) + 1)
    /\ clock' = now
    /\ UNCHANGED <<provider_type, available, products, processed_events, log,
                   faults, tasks, worker_vars>>

\* ProductService.create_product: the product is stored, product.created is
\* published with the trace id of the request
CreateProduct ==
    \E trace_id \in TraceIds, outcome \in ClientOutcomes :
      \E now \in TimesRead(trace_id, trace_id) :
        LET created == publish_event("product.created", Data("product"),
                                     trace_id, trace_id, now, outcome)
        IN  Complete("create_product", <<created>>, ~created.raised, now)

\* ProductService.update_product: product.updated is published, and
\* product.price.changed after it when the price differs
UpdateProduct ==
    \E trace_id \in TraceIds, price_changed \in BOOLEAN,
       first \in ClientOutcomes, second \in ClientOutcomes :
      \E now \in TimesRead(trace_id, trace_id) :
        \E later \in {t \in TimesRead(trace_id, trace_id) : t >= now} :
            LET updated == publish_event("product.updated", Data("product"),
                                         trace_id, trace_id, now, first)
                changed == publish_event("product.price.changed", Data("price"),
                                         trace_id, trace_id, later, second)
            IN  IF price_changed /\ ~updated.raised
                THEN Complete("update_product", <<updated, changed>>,
                              ~changed.raised, later)
                ELSE /\ second = "accepted"
                     /\ later = now
                     /\ Complete("update_product", <<updated>>,
                                 ~updated.raised, now)

\* ProductService.delete_product: publish_product_deleted is called with a
\* variants argument it does not have; the TypeError leaves the operation
\* after the product was deleted, and nothing is published
DeleteProduct ==
    Complete("delete_product", <<>>, FALSE, clock)

\* a direct call of publish_event, with or without a correlation id
PublishEvent ==
    \E correlation_id \in {"", "corr-1"}, trace_id \in TraceIds,
       outcome \in ClientOutcomes :
      \E now \in TimesRead(correlation_id, trace_id) :
        LET call == publish_event("product.badge.assigned", Data("badge"),
                                  correlation_id, trace_id, now, outcome)
        IN  Complete("publish_event", <<call>>, ~call.raised, now)

\* a publish through the provider of the factory
ProviderPublish ==
    \E correlation_id \in {"", "corr-1"}, outcome \in ClientOutcomes :
        LET provider == create_messaging_provider(Configured(provider_type))
            call == provider_publish_event(
                        provider, "product.created",
                        Envelope("product.created", Data("product"),
                                 correlation_id, clock),
                        correlation_id, outcome)
        IN  Complete("provider.publish_event", <<call>>, ~call.raised, clock)

PublishInit ==
    /\ products = [p \in Products |-> ZeroAggregates]
    /\ processed_events = {}
    /\ log = <<>>
    /\ faults = 0
    /\ tasks = <<>>
    /\ provider_type \in ProviderTypes
    /\ available \in BOOLEAN
    /\ sent = <<>>
    /\ operations = <<>>
    /\ clock = 0
    /\ worker = <<>>
    /\ broker = <<>>
    /\ environ = <<>>
    /\ startup = <<>>

PublishNext ==
    \/ CreateProduct
    \/ UpdateProduct
    \/ DeleteProduct
    \/ PublishEvent
    \/ ProviderPublish

SpecPublish == PublishInit /\ [][PublishNext]_vars

(***************************************************************************)
(* Properties of the outward path (SpecPublish).                           *)
(***************************************************************************)
\* the publish calls of the run
AllCalls ==
    UNION {{operations[i].calls[k] : k \in 1..Len(operations[i].calls)} :
              i \in 1..Len(operations)}

Published ==
    {i \in 1..Len(sent) :
        operations[sent[i].op].name \in {"create_product", "update_product"}}

\* C25: two distinct outward events carry different envelope ids, also the
\* product.updated and the product.price.changed event of one
\* update_product call
EnvelopeIdsUnique ==
    \A i \in Published, j \in Published :
        i # j => sent[i].envelope.id # sent[j].envelope.id

\* C26: whatever MESSAGING_PROVIDER is, the envelopes of the service
\* operations go out on the transport of the provider the factory selects
\* for that value
ConfiguredTransportUsed ==
    \A i \in Published :
        sent[i].transport =
            TransportOf(create_messaging_provider(Configured(provider_type)))

\* the calls of the publisher that gave an envelope to the sidecar client
PublisherCalls ==
    {c \in AllCalls : c.via = "DaprEventPublisher" /\ c.attempts = 1}

\* C27: the envelope of a published event has specversion 1.0, the event
\* type as its type and as the topic, the service name as its source,
\* datacontenttype application/json, the payload passed in as its data, and
\* as correlationId the correlation id passed in, or the ambient trace id
\* when none was passed
EnvelopeConstruction ==
    \A c \in PublisherCalls :
        /\ c.envelope.specversion = "1.0"
        /\ c.envelope.type = c.topic
        /\ c.envelope.source = "product-service"
        /\ c.envelope.datacontenttype = "application/json"
        /\ c.envelope.data = c.passed.data
        /\ c.envelope.correlationId =
              IF c.passed.correlation_id # "" THEN c.passed.correlation_id
              ELSE c.trace_id

\* one event was published with a correlation id of its own inside a traced
\* request, the next with none
ExplicitThenAmbient ==
    /\ Len(operations) = 2
    /\ operations[1].name = "publish_event"
    /\ operations[1].calls[1].passed.correlation_id = "corr-1"
    /\ operations[1].calls[1].trace_id = "trace-1"
    /\ operations[1].calls[1].result
    /\ operations[2].name = "publish_event"
    /\ operations[2].calls[1].passed.correlation_id = ""
    /\ operations[2].calls[1].trace_id = "trace-1"
    /\ operations[2].calls[1].envelope.correlationId = "trace-1"
    /\ operations[2].calls[1].result

(***************************************************************************)
(* The pull worker.  start() connects and starts the consumer thread;      *)
(* the thread waits in process_data_events, runs _process_message for a     *)
(* delivered message and settles it; stop() clears the flag, joins the      *)
(* thread for 5 seconds and closes the channel and the connection.  The    *)
(* broker hands messages of the queue to the consumer as its prefetch      *)
(* count allows and takes back what is unsettled when the connection ends. *)
(***************************************************************************)
MaxMessages == 3     \* messages published to the queue in a run

MaxOrphans == 1      \* consumer threads that outlive the join of a stop()

prefetch_count == 1

NoMessage == Message("", "", FALSE, NoEvent, NoPayload)

\* the messages on the queue: an event that is applied, a body that is not
\* JSON, a body that is not an object, an event for a product not stored
WorkerMessages ==
    {Message(e.type, b, FALSE, e, NoPayload) :
        e \in {c \in Catalog : c.id = 1}, b \in Bodies}
    \cup {Message(e.type, "object", FALSE, e, NoPayload) :
            e \in {c \in Catalog : c.id = 6}}

\* mutant: the broker does not limit the unsettled messages of the consumer
MayReceiveAlways(b) == TRUE

\* basic_qos(prefetch_count=1), auto_ack=False
MayReceive(b) == Len(b.unacked) < prefetch_count

\* what _process_message does with a message: the handler result, or the
\* exception that reaches its except branches
ProcessOutcomes(msg) ==
    IF msg.body = "garbage"
    THEN {[status |-> "parse_error", products |-> products,
           ledger |-> processed_events]}
    ELSE IF msg.topic \notin TOPIC_HANDLERS
    THEN {[status |-> "unknown_topic", products |-> products,
           ledger |-> processed_events]}
    ELSE IF msg.body = "array"
    THEN {[status |-> "raised", products |-> products,
           ledger |-> processed_events]}
    ELSE {[status |-> o.status, products |-> o.products, ledger |-> o.ledger] :
             o \in Dispatch(msg, "none", products, processed_events)}

\* the calls _process_message issues for the delivery tag of a message: one
\* call on an open channel; on a channel that is gone basic_ack raises, and
\* inside the try block the except branch then issues basic_nack, which
\* raises too
SettlementCalls(status, open) ==
    IF open THEN <<Settlement(status)>>
    ELSE IF status = "parse_error" THEN <<"ack">>
    ELSE IF status = "raised" THEN <<"nack_requeue">>
    ELSE <<"ack", "nack_requeue">>

\* what the last return of _process_message left: the calls issued for the
\* delivery tag of its message, and whether one of them reached the broker
Callback(calls, settled) == [calls |-> calls, settled |-> settled]

\* the broker takes back the unsettled messages of a consumer that is gone
Requeued(b) == [b EXCEPT !.queue = b.unacked \o b.queue, !.unacked = <<>>]

WorkerUnchanged ==
    UNCHANGED <<log, tasks, publish_vars, config_vars>>

\* what _process_message does with a message while the handler of an
\* earlier consumer thread still runs on the event loop of the consumer:
\* run_until_complete raises RuntimeError
BusyOutcomes(msg) ==
    IF msg.body = "garbage" \/ msg.topic \notin TOPIC_HANDLERS
    THEN ProcessOutcomes(msg)
    ELSE {[status |-> "raised", products |-> products,
           ledger |-> processed_events]}

\* if self._running: return
AlreadyRunning(w) == w.running

\* the consumer threads that are alive: the one start() created last and
\* those of earlier starts that are still inside a handler
Threads(w) ==
    (IF w.thread \in {"waiting", "handling"} THEN 1 ELSE 0) + Len(w.orphans)

\* the broker connections of the consumer that are open: the one it
\* refers to and one that a later _setup_connection replaced without
\* closing it
Connections(w) ==
    (IF w.connection \in {"open", "half"} THEN 1 ELSE 0)
    + (IF w.leaked THEN 1 ELSE 0)

\* start(): returns when the flag is set; otherwise _setup_connection,
\* _running = True and a new thread is started.  When the connection cannot
\* be made, or the channel, exchange or queue cannot be set up on it, the
\* flag is cleared and the exception leaves start(); in the second case the
\* connection stays open.  A thread of an earlier start that is still
\* inside a handler is no longer referred to.
Start ==
    /\ worker.stopping # "joining"
    /\ IF AlreadyRunning(worker)
       THEN UNCHANGED worker
       ELSE /\ worker.thread = "handling" => Len(worker.orphans) < MaxOrphans
            /\ \/ worker' =
                    [worker EXCEPT
                       !.running = TRUE,
                       !.thread = "waiting",
                       !.connection = "open",
                       !.stopping = "no",
                       !.current = NoMessage,
                       !.orphans = IF worker.thread = "handling"
                                   THEN Append(@, worker.current) ELSE @,
                       !.leaked = @ \/ worker.connection = "half"]
               \/ worker' =
                    [worker EXCEPT
                       !.running = FALSE,
                       !.connection = IF @ = "half" THEN "half" ELSE "failed"]
               \/ worker' =
                    [worker EXCEPT
                       !.running = FALSE,
                       !.connection = "half",
                       !.leaked = @ \/ worker.connection = "half"]
    /\ UNCHANGED <<products, processed_events, faults, broker>>
    /\ WorkerUnchanged

\* a producer publishes a message that is routed to the queue
Enqueue ==
    /\ broker.published < MaxMessages
    /\ \E msg \in WorkerMessages :
         broker' = [broker EXCEPT !.queue = Append(broker.queue, msg),
                                  !.published = broker.published + 1]
    /\ UNCHANGED <<products, processed_events, faults, worker>>
    /\ WorkerUnchanged

\* the broker sends the next message to the consumer
BrokerDeliver ==
    /\ worker.connection = "open"
    /\ broker.queue # <<>>
    /\ MayReceive(broker)
    /\ broker' = [broker EXCEPT !.queue = Tail(broker.queue),
                                !.unacked = Append(broker.unacked,
                                                   Head(broker.queue))]
    /\ UNCHANGED <<products, processed_events, faults, worker>>
    /\ WorkerUnchanged

\* process_data_events calls _process_message for a delivered message
ProcessBegin ==
    /\ worker.thread = "waiting"
    /\ worker.connection = "open"
    /\ broker.unacked # <<>>
    /\ worker' = [worker EXCEPT !.thread = "handling",
                                !.current = Head(broker.unacked)]
    /\ UNCHANGED <<products, processed_events, faults, broker>>
    /\ WorkerUnchanged

\* the handler returns or raises and _process_message settles the message;
\* when the channel is closed basic_ack raises, basic_nack raises in the
\* except branch, and the exception ends _consume_messages
ProcessEnd ==
    /\ worker.thread = "handling"
    /\ \E o \in (IF worker.orphans # <<>>
                 THEN BusyOutcomes(worker.current)
                 ELSE ProcessOutcomes(worker.current)) :
         /\ products' = o.products
         /\ processed_events' = o.ledger
         /\ IF worker.connection = "open"
            THEN /\ worker' = [worker EXCEPT
                                 !.thread = "waiting",
                                 !.current = NoMessage,
                                 !.callback =
                                    Callback(SettlementCalls(o.status, TRUE),
                                             TRUE)]
                 /\ broker' =
                      [broker EXCEPT
                         !.unacked = Tail(broker.unacked),
                         !.queue = IF Settlement(o.status) = "nack_requeue"
                                   THEN <<worker.current>> \o broker.queue
                                   ELSE broker.queue,
                         !.last_settled = [msg |-> worker.current,
                                           status |-> o.status,
                                           how |-> Settlement(o.status)]]
            ELSE /\ worker' = [worker EXCEPT
                                 !.thread = "ended",
                                 !.current = NoMessage,
                                 !.callback =
                                    Callback(SettlementCalls(o.status, FALSE),
                                             FALSE)]
                 /\ UNCHANGED broker
    /\ UNCHANGED faults
    /\ WorkerUnchanged

\* the handler of a thread that outlived its stop() returns: basic_ack and
\* basic_nack raise on its closed channel and the thread ends
OrphanEnd ==
    /\ worker.orphans # <<>>
    /\ \E o \in ProcessOutcomes(Head(worker.orphans)) :
         /\ products' = o.products
         /\ processed_events' = o.ledger
         /\ worker' = [worker EXCEPT
                         !.orphans = Tail(@),
                         !.callback =
                            Callback(SettlementCalls(o.status, FALSE), FALSE)]
    /\ UNCHANGED <<faults, broker>>
    /\ WorkerUnchanged

\* while self._running: the loop ends once the flag is cleared
ConsumeExit ==
    /\ worker.thread = "waiting"
    /\ ~worker.running
    /\ worker' = [worker EXCEPT !.thread = "ended"]
    /\ UNCHANGED <<products, processed_events, faults, broker>>
    /\ WorkerUnchanged

\* process_data_events raises on a connection that is gone: the except
\* branch of _consume_messages logs and the thread ends
ConsumeFails ==
    /\ worker.thread = "waiting"
    /\ worker.connection \in {"lost", "closed"}
    /\ worker' = [worker EXCEPT !.thread = "ended"]
    /\ UNCHANGED <<products, processed_events, faults, broker>>
    /\ WorkerUnchanged

\* the broker becomes unreachable
ConnectionLost ==
    /\ faults < MaxFaults
    /\ worker.connection = "open"
    /\ worker' = [worker EXCEPT !.connection = "lost"]
    /\ broker' = Requeued(broker)
    /\ faults' = faults + 1
    /\ UNCHANGED <<products, processed_events>>
    /\ WorkerUnchanged

\* stop(): self._running = False, then join(timeout=5.0)
StopRequest ==
    /\ worker.stopping = "no"
    /\ worker.thread # "none"
    /\ worker' = [worker EXCEPT !.running = FALSE, !.stopping = "joining"]
    /\ UNCHANGED <<products, processed_events, faults, broker>>
    /\ WorkerUnchanged

\* stop(): the join is over, because the thread ended or because 5 seconds
\* passed while a handler was running; channel and connection are closed
StopClose ==
    /\ worker.stopping = "joining"
    /\ worker.thread \in {"ended", "handling"}
    /\ worker' = [worker EXCEPT
                    !.stopping = "done",
                    !.connection = IF worker.connection \in {"open", "half"}
                                   THEN "closed" ELSE worker.connection]
    /\ broker' = IF worker.connection = "open" THEN Requeued(broker) ELSE broker
    /\ UNCHANGED <<products, processed_events, faults>>
    /\ WorkerUnchanged

WorkerInit ==
    /\ products = [p \in Products |-> ZeroAggregates]
    /\ processed_events = {}
    /\ log = <<>>
    /\ faults = 0
    /\ tasks = <<>>
    /\ provider_type = "rabbitmq"
    /\ available = TRUE
    /\ sent = <<>>
    /\ operations = <<>>
    /\ clock = 0
    /\ worker = [running |-> FALSE, thread |-> "none", connection |-> "none",
                 stopping |-> "no", current |-> NoMessage,
                 callback |-> Callback(<<>>, FALSE),
                 orphans |-> <<>>, leaked |-> FALSE]
    /\ broker = [queue |-> <<>>, unacked |-> <<>>, published |-> 0,
                 last_settled |-> [msg |-> NoMessage, status |-> "",
                                   how |-> "none"]]
    /\ environ = <<>>
    /\ startup = <<>>

WorkerNext ==
    \/ Start
    \/ Enqueue
    \/ BrokerDeliver
    \/ ProcessBegin
    \/ ProcessEnd
    \/ OrphanEnd
    \/ ConsumeExit
    \/ ConsumeFails
    \/ ConnectionLost
    \/ StopRequest
    \/ StopClose

SpecWorker == WorkerInit /\ [][WorkerNext]_vars

(***************************************************************************)
(* Properties of the pull worker (SpecWorker).                             *)
(***************************************************************************)
\* C28: stop() closes the channel and the connection only after the handler
\* of the message in flight has finished and the message is settled: the
\* transport is never closed while a handler is running
DrainedBeforeClose ==
    ~(worker.connection = "closed" /\ worker.thread = "handling")

\* C29: the worker holds at most one unsettled message, and while a handler
\* runs on an open connection the message it handles is the only one
\* delivered and not settled: the next message is delivered, and its
\* handler started, only after the settlement
SingleInFlight ==
    /\ Len(broker.unacked) <= 1
    /\ (worker.thread = "handling" /\ worker.connection = "open")
          => broker.unacked = <<worker.current>>
    /\ worker.thread # "handling" => worker.current = NoMessage

\* a message was settled, the handler of the next one is running and a third
\* one waits on the queue
NextWaitsForSettlement ==
    /\ broker.last_settled.how = "ack"
    /\ worker.thread = "handling"
    /\ worker.connection = "open"
    /\ broker.unacked = <<worker.current>>
    /\ broker.queue # <<>>

\* C30: when the handling of a message ends and stop() was not called, the
\* thread is back in its consume loop, whatever went wrong with the message
StaysInLoop ==
    [][(/\ worker.thread = "handling"
        /\ worker'.thread # "handling"
        /\ worker'.running)
          => worker'.thread = "waiting"]_vars

(***************************************************************************)
(* The two delivery paths compared (SpecRouter).                           *)
(***************************************************************************)
\* the store and ledger states a handler invocation can leave, given the
\* call that raises in it
Effects(outcomes, fault) ==
    {<<o.products, o.ledger>> :
        o \in {x \in outcomes : fault # "none" => x.message = fault}}

\* C31: the dispatch table of the pull worker and the subscription list of
\* the push path have the same topics, each topic has the same handler of
\* the same consumer on both paths, and in every state reached by any mix of
\* push and pull deliveries a decoded envelope leaves the same aggregate and
\* ledger on either path
PathsAgree ==
    /\ SUBSCRIPTIONS = TOPIC_HANDLERS
    /\ \A t \in TOPIC_HANDLERS : PushHandler(t) = PullHandler(t)
    /\ \A msg \in Messages, fault \in Faults :
         (msg.body = "object" /\ msg.topic \in TOPIC_HANDLERS)
            => Effects(Endpoint(msg, fault, products, processed_events), fault)
               = Effects(Dispatch(msg, fault, products, processed_events), fault)

\* a review.deleted event was applied by push to an aggregate that an
\* earlier delivery had written
PushAppliedAfterEarlier ==
    /\ Delivered
    /\ log[1].path = "push"
    /\ log[1].msg.topic = "review.deleted"
    /\ log[1].status = "success"
    /\ log[1].before["P1"].total_review_count > 0
    /\ log[1].after # log[1].before
    /\ log[1].ledger_before # {}

(***************************************************************************)
(* What a review.updated event leaves alone (Spec).                        *)
(***************************************************************************)
\* the invocations of handle_review_updated that wrote the product
UpdatedWrites ==
    {i \in DOMAIN log : log[i].event.type = "review.updated" /\ log[i].wrote}

\* C32: a review.updated event with differing ratings changes only the
\* average (to the rounded quotient of the sum with the previous rating
\* replaced by the new one over the unchanged count), the bucket of the
\* previous rating (one less, not below 0) and the bucket of the new rating
\* (one more); the two counts, the recent reviews and the last review date
\* stay as they were
UpdatedFrame ==
    \A i \in UpdatedWrites :
        LET e == log[i].event
            old == log[i].before[e.productId]
            new == log[i].after[e.productId]
        IN  /\ e.rating # e.previousRating
            /\ new.average_rating \in
                  Round2(old.average_rating * old.total_review_count
                            - 100 * e.previousRating + 100 * e.rating,
                         old.total_review_count,
                         <<old.average_rating, old.total_review_count,
                           e.previousRating, e.rating>>,
                         UpdatedHalfwayUp, UpdatedHalfwayDown)
            /\ \A k \in Ratings :
                  new.rating_distribution[k] =
                     (IF k = e.previousRating
                      THEN Max(0, old.rating_distribution[k] - 1)
                      ELSE old.rating_distribution[k])
                     + (IF k = e.rating THEN 1 ELSE 0)
            /\ new.total_review_count = old.total_review_count
            /\ new.verified_review_count = old.verified_review_count
            /\ new.recent_reviews = old.recent_reviews
            /\ new.last_review_date = old.last_review_date
            /\ \A p \in Products \ {e.productId} :
                  log[i].after[p] = log[i].before[p]

\* a rating was updated in an aggregate that lists reviews, counts a
\* verified one and has the previous rating in its bucket
UpdatedListedReview ==
    \E i \in UpdatedWrites :
        LET old == log[i].before[log[i].event.productId] IN
        /\ log[i].status = "success"
        /\ old.recent_reviews # <<>>
        /\ old.last_review_date # NoneValue
        /\ old.verified_review_count > 0
        /\ old.rating_distribution[log[i].event.previousRating] > 0
        /\ log[i].after # log[i].before

NotCalled == "not called"

\* create_messaging_provider()
CreateProvider ==
    /\ startup.provider = NotCalled
    /\ startup' = [startup EXCEPT !.provider = create_messaging_provider(environ)]
    /\ UNCHANGED <<products, processed_events, log, faults, tasks,
                   publish_vars, worker, broker, environ>>

\* start_rabbitmq_consumer()
StartConsumer ==
    /\ startup.consumer = NotCalled
    /\ \E started \in start_rabbitmq_consumer(environ) :
         startup' = [startup EXCEPT !.consumer = started]
    /\ UNCHANGED <<products, processed_events, log, faults, tasks,
                   publish_vars, worker, broker, environ>>

FactoryInit ==
    /\ products = [p \in Products |-> ZeroAggregates]
    /\ processed_events = {}
    /\ log = <<>>
    /\ faults = 0
    /\ tasks = <<>>
    /\ provider_type = "dapr"
    /\ available = TRUE
    /\ sent = <<>>
    /\ operations = <<>>
    /\ clock = 0
    /\ worker = <<>>
    /\ broker = <<>>
    /\ environ \in Environments
    /\ startup = [provider |-> NotCalled, consumer |-> NotCalled]

FactoryNext == CreateProvider \/ StartConsumer

SpecFactory == FactoryInit /\ [][FactoryNext]_vars

\* the spellings of a value of MESSAGING_PROVIDER, without regard to case
Spelled(value) ==
    CASE value = "dapr" -> {Unset, "dapr", "DAPR"}
      [] value = "servicebus" -> {"servicebus", "ServiceBus"}
      [] value = "rabbitmq" -> {"rabbitmq", "RabbitMQ"}

Missing(setting) == setting \in {Unset, ""}

\* the provider a value selects, the required settings of that provider
\* being there
Selects(value) ==
    /\ environ.MESSAGING_PROVIDER \in Spelled(value)
    /\ value = "servicebus"
          => /\ ~Missing(environ.SERVICEBUS_CONNECTION_STRING)
             /\ ~Missing(environ.SERVICEBUS_TOPIC_NAME)
    /\ value = "rabbitmq" => ~Missing(environ.RABBITMQ_URL)

WorkerOnlyForRabbitMQ ==
    startup.consumer = "RabbitMQConsumer"
        => environ.MESSAGING_PROVIDER \in Spelled("rabbitmq")

CallbackOver == worker.callback.calls # <<>>

\* C35: for every message given to the callback exactly one basic_ack or
\* one basic_nack is issued for its delivery tag, never both and never none,
\* and the message is settled by it
SettledExactlyOnce ==
    CallbackOver
        => /\ Len(worker.callback.calls) = 1
           /\ worker.callback.settled

(***************************************************************************)
(* Invocations that return an error (Spec).                                *)
(***************************************************************************)
\* C36: an invocation of a review handler that returns status error has
\* changed neither the review aggregate of a product nor the ledger, also
\* when the error is an exception of a store or ledger call
ErrorChangesNothing ==
    \A i \in DOMAIN log :
        log[i].status = "error"
            => /\ log[i].after = log[i].before
               /\ ~log[i].marked
               /\ ~log[i].wrote

(***************************************************************************)
(* A review.updated event on an aggregate that counts no review            *)
(* (SpecRouter).                                                           *)
(***************************************************************************)
\* the last delivery handed a review.updated event with its fields and with
\* differing ratings, not yet in the ledger, to the handler while the
\* stored product counted no review
UpdatedOnEmpty ==
    /\ Delivered
    /\ log[1].handled
    /\ log[1].msg.topic = "review.updated"
    /\ log[1].msg.body = "object"
    /\ LET data == ReviewData(log[1].msg) IN
         /\ data.id # NoneValue
         /\ data.id \notin log[1].ledger_before
         /\ data.productId \in DOMAIN log[1].before
         /\ data.rating # NoneValue
         /\ data.previousRating # NoneValue
         /\ data.rating # data.previousRating
         /\ log[1].before[data.productId].total_review_count = 0

\* C37: a review.updated event with differing ratings for a stored product
\* whose total_review_count is 0 changes neither the aggregate nor the
\* ledger: the division by the zero count is caught, the handler returns
\* status error, the event stays unmarked, and the delivery is acknowledged
\* on both paths, a basic_ack on the pull path and SUCCESS on the push path
UpdatedOnEmptyRejected ==
    UpdatedOnEmpty
        => /\ log[1].status = "error"
           /\ log[1].fault = "none" => log[1].message = "division by zero"
           /\ log[1].after = log[1].before
           /\ products = log[1].before
           /\ log[1].ledger_after = log[1].ledger_before
           /\ processed_events = log[1].ledger_before
           /\ log[1].msg.event.id \notin processed_events
           /\ log[1].path = "pull" => log[1].settled = "ack"
           /\ log[1].path = "push" => log[1].settled = "SUCCESS"

\* the division by zero was caught on the pull path after a review had been
\* counted and deleted again
DivisionCaughtOnPull ==
    /\ UpdatedOnEmpty
    /\ log[1].path = "pull"
    /\ log[1].fault = "none"
    /\ log[1].message = "division by zero"
    /\ log[1].ledger_before # {}

(***************************************************************************)
(* Life cycle of the pull worker (SpecWorker).                             *)
(***************************************************************************)
\* at most one consumer thread and one broker connection
OneThreadOneConnection ==
    /\ Threads(worker) <= 1
    /\ Connections(worker) <= 1

\* is_running() agrees with the flag: the thread is alive while it is set
FlagMeansAlive ==
    worker.running => worker.thread \in {"waiting", "handling"}

\* while the flag is set no step creates a thread or a connection
NothingCreatedWhileRunning ==
    worker.running
        => /\ Threads(worker') <= Threads(worker)
           /\ Connections(worker') <= Connections(worker)

\* a connection setup that fails leaves the flag cleared
FailedStartNotRunning ==
    (worker'.connection \in {"failed", "half"}
        /\ worker'.connection # worker.connection)
        => ~worker'.running

\* C38: over any sequence of start() and stop() calls the consumer has at
\* most one consumer thread and one broker connection; start() with the
\* flag set creates neither; a start() whose connection setup fails leaves
\* the flag cleared; and whenever the flag is set the consumer thread is
\* alive
WorkerLifecycle ==
    /\ [](OneThreadOneConnection /\ FlagMeansAlive)
    /\ [][NothingCreatedWhileRunning /\ FailedStartNotRunning]_vars

=============================================================================
